---- MODULE Spec2Model ----
(***************************************************************************)
(* Forward computation of the Transformer core in                          *)
(* "src/base modules/Transformer": mha.py, models.py, FFN.py.              *)
(*                                                                         *)
(* Numeric conventions of the attention part.  Tensors are nested          *)
(* sequences of integers.  A score is a record [ninf, v]: ninf marks       *)
(* float('-inf'), v counts multiples of self.scale = 1/sqrt(d_k).  An      *)
(* attention weight is an exact fraction <<num, den>> whose den is the     *)
(* softmax normaliser; <<0, 0>> is NaN (0/0).  The power 2^v stands for    *)
(* exp(v * scale): one fixed base > 1 per module.                          *)
(***************************************************************************)
EXTENDS Integers, Sequences, FiniteSets, TLC

VARIABLES
    mha,        \* the MultiHeadAttention module under test (mha.py)
    emb,        \* the embedding front end under test (models.py)
    enc_layer,  \* a TransformerLayer without src_attn (encoder prototype)
    dec_layer,  \* a TransformerLayer with src_attn (decoder prototype)
    encoder,    \* Encoder.layers: the clones of enc_layer
    decoder,    \* Decoder.layers: the clones of dec_layer
    call        \* the forward call in progress: arguments, locals, outcome

vars == <<mha, emb, enc_layer, dec_layer, encoder, decoder, call>>

core == <<enc_layer, dec_layer, encoder, decoder>>

\* ---------------------------------------------------------------- bounds
MaxLen == 2
MaxBatch == 2
MaxHeads == 2
MaxDModel == 3
MaxVocab == 2
MaxLayers == 2

\* ------------------------------------------------------------- helpers
RECURSIVE SumSeq(_)
SumSeq(s) == IF s = <<>> THEN 0 ELSE Head(s) + SumSeq(Tail(s))

RECURSIVE Pow2(_)
Pow2(n) == IF n <= 0 THEN 1 ELSE 2 * Pow2(n - 1)

RECURSIVE Gcd(_, _)
Gcd(a, b) == IF b = 0 THEN a ELSE Gcd(b, a % b)

Abs(n) == IF n < 0 THEN -n ELSE n

NaN == <<0, 0>>

\* canonical form of the fraction n/d (d > 0)
Frac(n, d) == LET g == Gcd(Abs(n), d) IN <<n \div g, d \div g>>

\* the tensor t itself; comparing it makes TLC compute its elements once
Tabulate(t) == IF t = t THEN t ELSE t

\* Python None; every tensor of the model is a non-empty sequence
None == <<>>

\* ------------------------------------------------------- input tensors
\* a float tensor [len, batch, d_model] built from one content bit per position
InTensor(c, batch, d_model) ==
    [i \in 1..Len(c) |-> [b \in 1..batch |-> [k \in 1..d_model |-> (c[i] + b + k) % 2]]]

\* the contents offered for a sequence of `len` positions: all zero, or one
\* position set
Contents(len) == {[i \in 1..len |-> IF i = p THEN 1 ELSE 0] : p \in 0..len}

MaskKinds == {"causal", "strict", "last", "shift"}

\* a 0/1 mask tensor of shape [m0, m1, m2]
InMask(kind, m0, m1, m2) ==
    [i \in 1..m0 |-> [j \in 1..m1 |-> [b \in 1..m2 |->
        CASE kind = "causal" -> IF j <= i THEN 1 ELSE 0
          [] kind = "strict" -> IF j < i THEN 1 ELSE 0
          [] kind = "last"   -> IF j = m1 THEN 1 ELSE 0
          [] kind = "shift"  -> IF j = ((i + b) % m1) + 1 THEN 1 ELSE 0]]]

\* the masks offered to a call with query length lq, key length lk and
\* batch size bs: no mask; every kind in each shape that broadcasts; and a
\* causal mask in each shape whose dimensions are exact or one too large
Masks(lq, lk, bs) ==
    {None}
    \cup { InMask(kind, m0, lk, m2) : kind \in MaskKinds, m0 \in {1, lq}, m2 \in {1, bs} }
    \cup { InMask("causal", m0, m1, m2) :
                m0 \in {lq, lq + 1}, m1 \in {lk, lk + 1}, m2 \in {bs, bs + 1} }

MaskShape(mask) == <<Len(mask), Len(mask[1]), Len(mask[1][1])>>

\* ------------------------------------------- PrepareForMultiHeadAttention
\* learned parameters of the three nn.Linear(d_model, heads * d_k) maps:
\* one fixed integer value per module ("query", "key", "value")
LinearWeight(which, o, k, d_model) ==
    CASE which = "query" -> IF k = ((o - 1) % d_model) + 1 THEN 1 ELSE 0
      [] which = "key"   -> IF k = (o % d_model) + 1 THEN 1 ELSE 0
      [] which = "value" -> IF k = ((o - 1) % d_model) + 1 THEN 1 ELSE 0

LinearBias(which) == IF which = "value" THEN 1 ELSE 0

\* self.linear(x) on one vector
Linear(which, v, out, d_model) ==
    [o \in 1..out |->
        SumSeq([k \in 1..d_model |-> LinearWeight(which, o, k, d_model) * v[k]])
          + LinearBias(which)]

\* forward: linear, then view(*head_shape, heads, d_k)
PrepareForward(which, x, m) ==
    [i \in 1..Len(x) |-> [b \in 1..Len(x[i]) |->
        LET y == Linear(which, x[i][b], m.heads * m.d_k, m.d_model)
        IN  [h \in 1..m.heads |-> [d \in 1..m.d_k |-> y[(h - 1) * m.d_k + d]]]]]

\* shape of a projected tensor [len, batch, heads, d_k]
Shape4(t) == <<Len(t), Len(t[1]), Len(t[1][1]), Len(t[1][1][1])>>

\* ----------------------------------------------------- MultiHeadAttention
\* __init__: d_k = d_model // heads, scale = 1 / math.sqrt(d_k) (a
\* ZeroDivisionError when d_k = 0), attn = None; nothing compares
\* heads * d_k with d_model.  training is nn.Module's mode flag.
MHAInit(heads, d_model, training) ==
    LET d_k == d_model \div heads
    IN  IF d_k = 0
        THEN [status |-> "ZeroDivisionError", heads |-> heads, d_model |-> d_model,
              d_k |-> d_k, training |-> training, attn |-> None]
        ELSE [status |-> "ok", heads |-> heads, d_model |-> d_model,
              d_k |-> d_k, training |-> training, attn |-> None]

\* torch.einsum("ibhd,jbhd->ijbh", query, key), then scores *= self.scale
get_scores(query, key) ==
    [i \in 1..Len(query) |-> [j \in 1..Len(key) |-> [b \in 1..Len(query[i]) |->
        [h \in 1..Len(query[i][b]) |->
            [ninf |-> FALSE,
             v |-> SumSeq([d \in 1..Len(query[i][b][h]) |->
                              query[i][b][h][d] * key[j][b][h][d]])]]]]]

\* prepare_mask with the second assert comparing against the query length
prepare_mask_ok_qlen(mshape, query_shape, key_shape) ==
    /\ mshape[1] = 1 \/ mshape[1] = query_shape[1]
    /\ mshape[2] = query_shape[1]
    /\ mshape[3] = 1 \/ mshape[3] = query_shape[2]

\* the three asserts of prepare_mask
prepare_mask_ok(mshape, query_shape, key_shape) ==
    /\ mshape[1] = 1 \/ mshape[1] = query_shape[1]
    /\ mshape[2] = key_shape[1]
    /\ mshape[3] = 1 \/ mshape[3] = query_shape[2]

\* element of the unsqueezed mask [m0, m1, m2, 1] broadcast to [i, j, b, h]
MaskAt(mask, i, j, b) ==
    mask[IF Len(mask) = 1 THEN 1 ELSE i][j][IF Len(mask[1][1]) = 1 THEN 1 ELSE b]

\* scores.masked_fill(mask == 0, float('-inf'))
masked_fill(scores, mask) ==
    [i \in 1..Len(scores) |-> [j \in 1..Len(scores[i]) |-> [b \in 1..Len(scores[i][j]) |->
        [h \in 1..Len(scores[i][j][b]) |->
            IF MaskAt(mask, i, j, b) = 0
            THEN [ninf |-> TRUE, v |-> 0]
            ELSE scores[i][j][b][h]]]]]

\* a softmax that normalises over the first axis (i, the query axis)
SoftmaxDim0(scores) ==
    [i \in 1..Len(scores) |-> [j \in 1..Len(scores[i]) |-> [b \in 1..Len(scores[i][j]) |->
        [h \in 1..Len(scores[i][j][b]) |->
            LET I   == 1..Len(scores)
                fin == {ii \in I : ~scores[ii][j][b][h].ninf}
                lo  == CHOOSE ii \in fin : \A k \in fin : scores[ii][j][b][h].v <= scores[k][j][b][h].v
                e(ii) == IF scores[ii][j][b][h].ninf THEN 0
                         ELSE Pow2(scores[ii][j][b][h].v - scores[lo][j][b][h].v)
            IN  IF fin = {} THEN NaN
                ELSE <<e(i), SumSeq([ii \in I |-> e(ii)])>>]]]]

\* nn.Softmax(dim=1): normalise over the second axis (j, the key axis)
Softmax(scores) ==
    [i \in 1..Len(scores) |-> [j \in 1..Len(scores[i]) |-> [b \in 1..Len(scores[i][j]) |->
        [h \in 1..Len(scores[i][j][b]) |->
            LET J   == 1..Len(scores[i])
                fin == {jj \in J : ~scores[i][jj][b][h].ninf}
                lo  == CHOOSE jj \in fin : \A k \in fin : scores[i][jj][b][h].v <= scores[i][k][b][h].v
                e(jj) == IF scores[i][jj][b][h].ninf THEN 0
                         ELSE Pow2(scores[i][jj][b][h].v - scores[i][lo][b][h].v)
            IN  IF fin = {} THEN NaN
                ELSE <<e(j), SumSeq([jj \in J |-> e(jj)])>>]]]]

\* nn.Dropout(0.1) on the weights: identity in eval mode; in training mode a
\* dropped weight becomes 0 and a kept one is scaled by 1/(1-p) = 10/9;
\* `dropped` is the set of key positions whose weights the call drops
DropNum == 10
DropDen == 9

Dropout(attn, training, dropped) ==
    [i \in 1..Len(attn) |-> [j \in 1..Len(attn[i]) |-> [b \in 1..Len(attn[i][j]) |->
        [h \in 1..Len(attn[i][j][b]) |->
            LET w == attn[i][j][b][h]
            IN  IF ~training \/ w = NaN THEN w
                ELSE IF j \in dropped THEN <<0, w[2] * DropDen>>
                ELSE <<w[1] * DropNum, w[2] * DropDen>>]]]]

\* torch.einsum("ijbh,jbhd->ibhd", attn, value)
Combine(attn, value) ==
    [i \in 1..Len(attn) |-> [b \in 1..Len(value[1]) |-> [h \in 1..Len(value[1][b]) |->
        [d \in 1..Len(value[1][b][h]) |->
            LET J == 1..Len(attn[i])
            IN  IF \E j \in J : attn[i][j][b][h] = NaN THEN NaN
                ELSE Frac(SumSeq([j \in J |-> attn[i][j][b][h][1] * value[j][b][h][d]]),
                          attn[i][1][b][h][2])]]]]

\* forward(query, key, value, mask): the function body ends after the
\* combination x; no statement returns it, so a completed call yields None
MHAForward(m, query, key, value, mask, dropped) ==
    LET q      == Tabulate(PrepareForward("query", query, m))
        k      == Tabulate(PrepareForward("key", key, m))
        v      == Tabulate(PrepareForward("value", value, m))
        scores == Tabulate(get_scores(q, k))
    IN  IF mask # None /\ ~prepare_mask_ok(MaskShape(mask), Shape4(q), Shape4(k))
        THEN [outcome |-> "AssertionError", ret |-> None, attn |-> None, x |-> None]
        ELSE LET filled == IF mask # None THEN Tabulate(masked_fill(scores, mask)) ELSE scores
                 attn   == Tabulate(Softmax(filled))
                 x      == Combine(Tabulate(Dropout(attn, m.training, dropped)), v)
             IN  [outcome |-> "returned", ret |-> None, attn |-> attn, x |-> x]

NoCall == [op |-> "none"]

\* a module that the specification at hand does not construct
Absent == [status |-> "absent"]

InitMHA ==
    /\ \E heads \in 1..MaxHeads, d_model \in 1..MaxDModel, training \in BOOLEAN :
          mha = MHAInit(heads, d_model, training)
    /\ call = NoCall
    /\ emb = Absent
    /\ enc_layer = Absent /\ dec_layer = Absent
    /\ encoder = <<>> /\ decoder = <<>>

\* key/value contents offered with a query content cq: the query itself
\* (self-attention), its complement, or an alternating memory of another length
KVContents(cq, lk) ==
    IF lk = Len(cq)
    THEN {cq, [i \in 1..lk |-> 1 - cq[i]]}
    ELSE {[i \in 1..lk |-> i % 2]}

\* one call of MultiHeadAttention.forward on a constructed module; the
\* caller is synchronous: one call at a time
Forward ==
    /\ mha.status = "ok"
    /\ call = NoCall
    /\ \E lq \in 1..MaxLen, lk \in 1..MaxLen, batch \in 1..MaxBatch :
       \E cq \in Contents(lq), mask \in Masks(lq, lk, batch) :
       \E ck \in KVContents(cq, lk) :
       \E dropped \in (IF mha.training THEN {{}, {1}} ELSE {{}}) :
          LET query == InTensor(cq, batch, mha.d_model)
              key   == InTensor(ck, batch, mha.d_model)
              r     == MHAForward(mha, query, key, key, mask, dropped)
          IN  call' = [op |-> "forward", query |-> query, key |-> key, value |-> key,
                        mask |-> mask] @@ r
    /\ UNCHANGED <<mha, emb, core>>

\* the caller drops the call's tensors: nothing of a call outlives it
Discard ==
    /\ call # NoCall
    /\ call' = NoCall
    /\ UNCHANGED <<mha, emb, core>>

NextMHA == Forward \/ Discard

SpecMHA == InitMHA /\ [][NextMHA]_vars

\* ------------------------------------------------- properties: attention
IsForward == call.op = "forward"

QueryLen == Len(call.query)
KeyLen == Len(call.key)
BatchSize == Len(call.query[1])

\* C2: a completed forward call returns a tensor of shape
\* [len_q, batch, model_dim], whatever len_k is.
C2_OutputShape ==
    (IsForward /\ call.outcome = "returned") =>
        /\ call.ret # None
        /\ Len(call.ret) = QueryLen
        /\ \A i \in 1..QueryLen :
              /\ Len(call.ret[i]) = BatchSize
              /\ \A b \in 1..BatchSize : Len(call.ret[i][b]) = mha.d_model

\* the mask shape contract, stated on the call's arguments
MaskShapeValid ==
    /\ MaskShape(call.mask)[1] \in {1, QueryLen}
    /\ MaskShape(call.mask)[2] = KeyLen
    /\ MaskShape(call.mask)[3] \in {1, BatchSize}

\* C3: with a mask supplied, forward fails without computing attention
\* exactly when the mask's first dimension is neither 1 nor query_len, or its
\* second differs from key_len, or its third is neither 1 nor batch_size.
C3_MaskContract ==
    (IsForward /\ call.mask # None) =>
        IF MaskShapeValid
        THEN call.outcome = "returned" /\ call.attn # None
        ELSE call.outcome = "AssertionError" /\ call.attn = None /\ call.x = None

C3_Witness ==
    /\ IsForward /\ call.mask # None
    /\ MaskShape(call.mask)[1] = QueryLen
    /\ MaskShape(call.mask)[2] # KeyLen
    /\ MaskShape(call.mask)[3] = BatchSize
    /\ call.outcome = "AssertionError"

\* key positions the mask leaves unmasked for query row i of batch element b
Unmasked(i, b) == {j \in 1..KeyLen : MaskAt(call.mask, i, j, b) # 0}

\* C4: where the mask leaves exactly one key position unmasked for a query
\* row, the softmax weight of that row is 1.0 there and 0.0 at every other
\* key position, for every batch element and head.
C4_SingleUnmaskedKey ==
    (IsForward /\ call.mask # None /\ call.outcome = "returned") =>
        \A i \in 1..QueryLen, b \in 1..BatchSize :
            Cardinality(Unmasked(i, b)) = 1 =>
                \A j \in 1..KeyLen, h \in 1..mha.heads :
                    LET w == call.attn[i][j][b][h]
                    IN  /\ w[2] > 0
                        /\ w[1] = (IF j \in Unmasked(i, b) THEN w[2] ELSE 0)

C4_Witness ==
    /\ IsForward /\ call.mask # None /\ call.outcome = "returned"
    /\ KeyLen >= 2 /\ QueryLen >= 2 /\ mha.heads >= 2
    /\ \A i \in 1..QueryLen, b \in 1..BatchSize : Unmasked(i, b) = {KeyLen}
    /\ \A i \in 1..QueryLen, b \in 1..BatchSize, h \in 1..mha.heads :
          call.attn[i][KeyLen][b][h] = <<1, 1>> /\ call.attn[i][1][b][h] = <<0, 1>>

\* a mask that excludes every key position after the query position
IsCausalMask(mask, len) ==
    /\ MaskShape(mask)[1] = len /\ MaskShape(mask)[2] = len
    /\ \A i \in 1..len, j \in 1..len, b \in 1..MaskShape(mask)[3] :
          mask[i][j][b] = (IF j < i THEN 1 ELSE 0) \/ mask[i][j][b] = (IF j <= i THEN 1 ELSE 0)
    /\ \A i \in 1..len, j \in 1..len, b \in 1..MaskShape(mask)[3] : j > i => mask[i][j][b] = 0

\* the inputs of the same shape that agree with the call's query on all positions <= i
AgreeUpTo(i) ==
    {c \in Contents(QueryLen) :
        \A p \in 1..i : InTensor(c, BatchSize, mha.d_model)[p] = call.query[p]}

\* C5: self-attention under a causal mask: the output at position i is the
\* same for any two inputs that agree on all positions <= i.
C5_CausalOutput ==
    (/\ IsForward /\ call.outcome = "returned"
     /\ call.key = call.query /\ call.mask # None
     /\ IsCausalMask(call.mask, QueryLen)) =>
        \A i \in 1..QueryLen : \A c \in AgreeUpTo(i) :
            LET other == InTensor(c, BatchSize, mha.d_model)
                r     == MHAForward(mha, other, other, other, call.mask, {})
            IN  /\ call.ret # None
                /\ r.ret # None
                /\ call.ret[i] = r.ret[i]

\* the combination x that forward computes last (and drops) is causal: rows
\* <= i of the input determine row i of x
LocalCombinationIsCausal ==
    (/\ IsForward /\ call.outcome = "returned" /\ ~mha.training
     /\ call.key = call.query /\ call.mask # None
     /\ IsCausalMask(call.mask, QueryLen)) =>
        \A i \in 1..QueryLen : \A c \in AgreeUpTo(i) :
            LET other == InTensor(c, BatchSize, mha.d_model)
                r     == MHAForward(mha, other, other, other, call.mask, {})
            IN  call.x[i] = r.x[i]

\* C6: construction fails when model_dim is not divisible by heads, so every
\* constructed module has heads * head_dim = model_dim.
C6_DivisibilityChecked ==
    /\ (mha.d_model % mha.heads # 0) => mha.status # "ok"
    /\ (mha.status = "ok") => mha.heads * mha.d_k = mha.d_model

\* ------------------------------------------------ embedding front end
\* EmbeddingsWithPositionalEncoding ("fixed") and
\* EmbeddingsWithLearnedPositionalEncoding ("learned"): __init__ keeps
\* d_model, an nn.Embedding(n_vocab, d_model) and a positional table of
\* max_len rows; only the learned table is an nn.Parameter (requires_grad)
EmbeddingsInit(variant, d_model, n_vocab, max_len) ==
    [status |-> "ok", variant |-> variant, d_model |-> d_model, n_vocab |-> n_vocab,
     max_len |-> max_len, requires_grad |-> (variant = "learned")]

Min(a, b) == IF a <= b THEN a ELSE b

\* forward(x) for x of shape [seq, batch].  An element of the result is
\* the record [tok, ch, pe_row], standing for
\*   linear.weight[tok][ch] * sqrt(d_model) + positional_encodings[pe_row][0][ch]
EmbeddingsForward(e, x, grad_enabled) ==
    LET seq  == Len(x)
        rows == Min(seq, e.max_len)    \* positional_encodings[:x.shape[0]]
        Fail(err) == [outcome |-> err, ret |-> None]
    IN  IF e.variant = "fixed"
        THEN Fail("AttributeError")    \* Tensor has no attribute required_grad_
        ELSE IF grad_enabled /\ e.requires_grad
        THEN Fail("RuntimeError")      \* requires_grad_ on a non-leaf slice
        ELSE IF \E i \in 1..seq : \E b \in 1..Len(x[i]) : x[i][b] < 0 \/ x[i][b] >= e.n_vocab
        THEN Fail("IndexError")        \* nn.Embedding lookup
        ELSE IF rows # seq /\ rows # 1
        THEN Fail("RuntimeError")      \* [seq, batch, d] + [rows, 1, d] does not broadcast
        ELSE [outcome |-> "returned",
              ret |-> [i \in 1..seq |-> [b \in 1..Len(x[i]) |-> [k \in 1..e.d_model |->
                         [tok |-> x[i][b], ch |-> k,
                          pe_row |-> IF rows = 1 THEN 1 ELSE i]]]]]

InitEmbed ==
    /\ \E variant \in {"fixed", "learned"}, d_model \in 1..MaxDModel,
          n_vocab \in 1..MaxVocab, max_len \in 1..MaxLen :
          emb = EmbeddingsInit(variant, d_model, n_vocab, max_len)
    /\ call = NoCall
    /\ mha = Absent
    /\ enc_layer = Absent /\ dec_layer = Absent
    /\ encoder = <<>> /\ decoder = <<>>

\* one call of the front end's forward on a token sequence [seq, batch];
\* grad_enabled is torch.is_grad_enabled() at the time of the call
EmbedForward ==
    /\ emb.status = "ok"
    /\ call = NoCall
    /\ \E seq \in 1..(MaxLen + 1), batch \in 1..MaxBatch, grad_enabled \in BOOLEAN :
       \E toks \in [1..seq -> 0..emb.n_vocab] :
          LET x == [i \in 1..seq |-> [b \in 1..batch |-> toks[i]]]
              r == EmbeddingsForward(emb, x, grad_enabled)
          IN  call' = [op |-> "embed.forward", x |-> x, grad_enabled |-> grad_enabled,
                       outcome |-> r.outcome, ret |-> r.ret]
    /\ UNCHANGED <<mha, emb, core>>

NextEmbed == EmbedForward \/ Discard

SpecEmbed == InitEmbed /\ [][NextEmbed]_vars

\* C7: both variants of the front end reject with an error every token
\* sequence longer than the positional table (sequence_length > max_length).
C7_RejectsOverlongSequence ==
    (call.op = "embed.forward" /\ Len(call.x) > emb.max_len) =>
        call.outcome # "returned"

\* ------------------------------------------- layers, stacks, composition
\* Above the attention module the tensors are kept as terms: a tuple headed
\* by the operation that produced it.  <<"tensor", name>> is a float tensor
\* [len, batch, d_model], <<"tokens", name>> an integer index tensor
\* [len, batch], <<"mask", name>> a mask of a valid shape.
IsTokens(t) == t # None /\ t[1] = "tokens"

Add(a, b) == <<"add", a, b>>

\* nn.LayerNorm([d_model]) named `name` of layer k of `owner` (k = 0: the
\* module's own norm)
LayerNorm(name, owner, k, t) == <<"LayerNorm", name, owner, k, t>>

\* the attention modules a TransformerLayer can be built with: this
\* repository's MultiHeadAttention, or a module whose forward returns the
\* attention output tensor (e.g. a subclass overriding forward)
AttnKinds == {"MultiHeadAttention", "TensorAttention"}

\* self.self_attn(query=, key=, value=, mask=) / self.src_attn(...)
AttnCall(kind, name, owner, k, query, key, value, mask) ==
    IF kind = "MultiHeadAttention"
    THEN None                  \* MultiHeadAttention.forward has no return
    ELSE <<"attn", name, owner, k, query, key, value, mask>>

\* FeedForward.forward: layer2(dropout(activation(layer1(x)) [* linear_v(x)]))
FeedForwardForward(is_gated, owner, k, x) ==
    LET g == <<"activation", <<"layer1", owner, k, x>>>>
        h == IF is_gated THEN <<"mul", g, <<"linear_v", owner, k, x>>>> ELSE g
    IN  <<"layer2", owner, k, <<"dropout", h>>>>

\* TransformerLayer.__init__: norm_src_attn exists only with a src_attn;
\* is_save_ff_input is False unless the owner sets it
TransformerLayerInit(self_attn, src_attn, is_gated, is_save_ff_input) ==
    [status |-> "ok", self_attn |-> self_attn, src_attn |-> src_attn,
     has_norm_src_attn |-> (src_attn # "None"), is_gated |-> is_gated,
     is_save_ff_input |-> is_save_ff_input, ff_input |-> None]

\* a forward that stores ff_input whatever is_save_ff_input says
TransformerLayerForwardAlwaysSave(L, owner, k, x, mask, src, src_mask) ==
    LET Fail(err) == [outcome |-> err, ret |-> None, layer |-> L]
        z1 == LayerNorm("norm_self_attn", owner, k, x)
        a  == AttnCall(L.self_attn, "self_attn", owner, k, z1, z1, z1, mask)
        x1 == Add(x, <<"dropout", a>>)
        z2 == LayerNorm("norm_src_attn", owner, k, x1)
        c  == AttnCall(L.src_attn, "src_attn", owner, k, z2, src, src, src_mask)
        stageB == src # None /\ L.src_attn # "None"
        x2 == IF stageB THEN Add(x1, <<"dropout", c>>) ELSE x1
        z3 == LayerNorm("norm_ff", owner, k, x2)
        ff == FeedForwardForward(L.is_gated, owner, k, z3)
    IN  IF IsTokens(x) THEN Fail("RuntimeError")
        ELSE IF a = None THEN Fail("TypeError")
        ELSE IF src # None /\ ~L.has_norm_src_attn THEN Fail("AttributeError")
        ELSE IF stageB /\ c = None THEN Fail("TypeError")
        ELSE [outcome |-> "returned", ret |-> Add(x2, <<"dropout", ff>>),
              layer |-> [L EXCEPT !.ff_input = <<"bound_method", "clone", z3>>]]

\* TransformerLayer.forward(x, mask, src, src_mask) of layer k of `owner`;
\* yields the outcome, the returned value and the layer's attributes after
TransformerLayerForward(L, owner, k, x, mask, src, src_mask) ==
    LET Fail(err) == [outcome |-> err, ret |-> None, layer |-> L]
        z1 == LayerNorm("norm_self_attn", owner, k, x)
        a  == AttnCall(L.self_attn, "self_attn", owner, k, z1, z1, z1, mask)
        x1 == Add(x, <<"dropout", a>>)
        z2 == LayerNorm("norm_src_attn", owner, k, x1)
        c  == AttnCall(L.src_attn, "src_attn", owner, k, z2, src, src, src_mask)
        stageB == src # None /\ L.src_attn # "None"
        x2 == IF stageB THEN Add(x1, <<"dropout", c>>) ELSE x1
        z3 == LayerNorm("norm_ff", owner, k, x2)
        ff == FeedForwardForward(L.is_gated, owner, k, z3)
    IN  IF IsTokens(x) THEN Fail("RuntimeError")     \* LayerNorm of an integer tensor
        ELSE IF a = None THEN Fail("TypeError")      \* self.dropout(None)
        ELSE IF src # None /\ ~L.has_norm_src_attn
        THEN Fail("AttributeError")                  \* self.norm_src_attn is missing
        ELSE IF stageB /\ c = None THEN Fail("TypeError")
        ELSE [outcome |-> "returned", ret |-> Add(x2, <<"dropout", ff>>),
              layer |-> IF L.is_save_ff_input
                        THEN [L EXCEPT !.ff_input = <<"bound_method", "clone", z3>>]
                        ELSE L]

\* the loop `for layer in self.layers` of Encoder.forward and
\* Decoder.forward from layer k on; stops at the first layer that raises
RECURSIVE RunLayers(_, _, _, _, _, _, _)
RunLayers(layers, owner, k, x, mask, src, src_mask) ==
    IF k > Len(layers)
    THEN [outcome |-> "returned", ret |-> x, layers |-> layers]
    ELSE LET r == TransformerLayerForward(layers[k], owner, k, x, mask, src, src_mask)
             after == [layers EXCEPT ![k] = r.layer]
         IN  IF r.outcome # "returned"
             THEN [outcome |-> r.outcome, ret |-> None, layers |-> after]
             ELSE RunLayers(after, owner, k + 1, r.ret, mask, src, src_mask)

\* the trailing self.norm(x) of a stack
FinalNorm(r, owner) ==
    IF r.outcome # "returned" THEN r
    ELSE IF IsTokens(r.ret) THEN [r EXCEPT !.outcome = "RuntimeError", !.ret = None]
    ELSE [r EXCEPT !.ret = LayerNorm("norm", owner, 0, r.ret)]

\* Encoder.forward(x, mask)
EncoderForwardOp(layers, x, mask) ==
    FinalNorm(RunLayers(layers, "encoder", 1, x, mask, None, None), "encoder")

\* Decoder.forward(x, memory, src_mask, tgt_mask)
DecoderForwardOp(layers, x, memory, src_mask, tgt_mask) ==
    FinalNorm(RunLayers(layers, "decoder", 1, x, tgt_mask, memory, src_mask), "decoder")

\* EncoderDecoder.forward(src, tgt, src_mask, tgt_mask): the encoder is
\* called on src itself; encode and decode are local functions that are
\* never called, and self.decode is not an attribute of the module
EncoderDecoderForwardOp(enc_layers, src, tgt, src_mask, tgt_mask) ==
    LET r == EncoderForwardOp(enc_layers, src, src_mask)
    IN  IF r.outcome # "returned"
        THEN [outcome |-> r.outcome, ret |-> None, stages |-> <<"encoder">>,
              layers |-> r.layers]
        ELSE [outcome |-> "AttributeError", ret |-> None, stages |-> <<"encoder">>,
              layers |-> r.layers]

\* clone_module_list(layer, n): n deep copies of the layer
clone_module_list(layer, n) == [k \in 1..n |-> layer]

Tensors == {<<"tensor", "x">>, <<"tensor", "y">>}
Memory == <<"tensor", "memory">>
SrcTokens == <<"tokens", "src">>
TgtTokens == <<"tokens", "tgt">>
SrcMask == <<"mask", "src_mask">>
TgtMask == <<"mask", "tgt_mask">>

\* the two prototype layers (is_save_ff_input possibly set by their owner
\* before cloning) and the stacks cloned from them
InitCore ==
    /\ \E self_attn \in AttnKinds, is_gated \in BOOLEAN, save \in BOOLEAN,
          n_layers \in 0..MaxLayers :
          /\ enc_layer = TransformerLayerInit(self_attn, "None", is_gated, save)
          /\ dec_layer = TransformerLayerInit(self_attn, self_attn, is_gated, save)
          /\ encoder = clone_module_list(enc_layer, n_layers)
          /\ decoder = clone_module_list(dec_layer, n_layers)
    /\ call = NoCall
    /\ mha = Absent
    /\ emb = Absent

\* a direct call of one of the two layers' forward, with or without memory
LayerForward ==
    /\ call = NoCall
    /\ \E which \in {"enc_layer", "dec_layer"}, x \in Tensors, src \in {None, Memory} :
          LET L == IF which = "enc_layer" THEN enc_layer ELSE dec_layer
              src_mask == IF src = None THEN None ELSE SrcMask
              r == TransformerLayerForward(L, which, 0, x, TgtMask, src, src_mask)
          IN  /\ call' = [op |-> "TransformerLayer.forward", layer |-> which, x |-> x,
                           mask |-> TgtMask, src |-> src, src_mask |-> src_mask,
                           outcome |-> r.outcome, ret |-> r.ret]
              /\ enc_layer' = IF which = "enc_layer" THEN r.layer ELSE enc_layer
              /\ dec_layer' = IF which = "dec_layer" THEN r.layer ELSE dec_layer
    /\ UNCHANGED <<mha, emb, encoder, decoder>>

EncoderForward ==
    /\ call = NoCall
    /\ \E x \in Tensors :
          LET r == EncoderForwardOp(encoder, x, SrcMask)
          IN  /\ call' = [op |-> "Encoder.forward", x |-> x, mask |-> SrcMask,
                           outcome |-> r.outcome, ret |-> r.ret]
              /\ encoder' = r.layers
    /\ UNCHANGED <<mha, emb, enc_layer, dec_layer, decoder>>

DecoderForward ==
    /\ call = NoCall
    /\ \E x \in Tensors :
          LET r == DecoderForwardOp(decoder, x, Memory, SrcMask, TgtMask)
          IN  /\ call' = [op |-> "Decoder.forward", x |-> x, memory |-> Memory,
                           src_mask |-> SrcMask, tgt_mask |-> TgtMask,
                           outcome |-> r.outcome, ret |-> r.ret]
              /\ decoder' = r.layers
    /\ UNCHANGED <<mha, emb, enc_layer, dec_layer, encoder>>

EncoderDecoderForward ==
    /\ call = NoCall
    /\ LET r == EncoderDecoderForwardOp(encoder, SrcTokens, TgtTokens, SrcMask, TgtMask)
       IN  /\ call' = [op |-> "EncoderDecoder.forward", src |-> SrcTokens, tgt |-> TgtTokens,
                        src_mask |-> SrcMask, tgt_mask |-> TgtMask,
                        outcome |-> r.outcome, ret |-> r.ret, stages |-> r.stages]
           /\ encoder' = r.layers
    /\ UNCHANGED <<mha, emb, enc_layer, dec_layer, decoder>>

\* a direct call of FeedForward.forward (the layers' feed_forward module)
FeedForwardCall ==
    /\ call = NoCall
    /\ \E x \in Tensors :
          call' = [op |-> "FeedForward.forward", x |-> x, outcome |-> "returned",
                   ret |-> FeedForwardForward(enc_layer.is_gated, "enc_layer", 0, x)]
    /\ UNCHANGED <<mha, emb, core>>

NextCore ==
    \/ LayerForward
    \/ EncoderForward
    \/ DecoderForward
    \/ EncoderDecoderForward
    \/ FeedForwardCall
    \/ Discard

SpecCore == InitCore /\ [][NextCore]_vars

\* ------------------------------------- properties: layers and composition
\* x + dropout(sublayer output)
Residual(x, sub) == Add(x, <<"dropout", sub>>)

\* the layer as a three-stage pre-norm pipeline: A, then B iff a memory is
\* supplied, then C, every sublayer returning a tensor
PipelineLayer(L, owner, k, x, mask, src, src_mask) ==
    LET nA == LayerNorm("norm_self_attn", owner, k, x)
        a  == Residual(x, <<"attn", "self_attn", owner, k, nA, nA, nA, mask>>)
        nB == LayerNorm("norm_src_attn", owner, k, a)
        b  == IF src # None
              THEN Residual(a, <<"attn", "src_attn", owner, k, nB, src, src, src_mask>>)
              ELSE a
        nC == LayerNorm("norm_ff", owner, k, b)
    IN  Residual(b, FeedForwardForward(L.is_gated, owner, k, nC))

\* layers k.. of a stack applied in index order, each fed the previous output
RECURSIVE PipelineLayers(_, _, _, _, _, _, _)
PipelineLayers(layers, owner, k, x, mask, src, src_mask) ==
    IF k > Len(layers) THEN x
    ELSE PipelineLayers(layers, owner, k + 1,
                        PipelineLayer(layers[k], owner, k, x, mask, src, src_mask),
                        mask, src, src_mask)

PipelineStack(layers, owner, x, mask, src, src_mask) ==
    LayerNorm("norm", owner, 0, PipelineLayers(layers, owner, 1, x, mask, src, src_mask))

CalledLayer == IF call.layer = "enc_layer" THEN enc_layer ELSE dec_layer

\* C1: EncoderDecoder.forward runs source embedding, encoder, target
\* embedding, decoder, generator in this order and returns the generator's
\* output.
C1_ForwardComposition ==
    (call.op = "EncoderDecoder.forward") =>
        /\ call.outcome = "returned"
        /\ call.stages = <<"src_embed", "encoder", "tgt_embed", "decoder", "generator">>
        /\ call.ret # None
        /\ call.ret[1] = "generator"

\* C8: TransformerLayer.forward is Stage A, Stage B iff a memory is
\* supplied, Stage C, each stage computing x + dropout(sublayer(norm(x))).
C8_LayerPipeline ==
    (call.op = "TransformerLayer.forward") =>
        /\ call.outcome = "returned"
        /\ call.ret = PipelineLayer(CalledLayer, call.layer, 0, call.x, call.mask,
                                    call.src, call.src_mask)

\* C9: Encoder.forward and Decoder.forward apply their N layers in index
\* order, each fed the previous output, then the trailing norm once; with
\* N = 0 the result is the norm of the input.
C9_StackOrder ==
    /\ (call.op = "Encoder.forward") =>
          /\ call.outcome = "returned"
          /\ call.ret = PipelineStack(encoder, "encoder", call.x, call.mask, None, None)
    /\ (call.op = "Decoder.forward") =>
          /\ call.outcome = "returned"
          /\ call.ret = PipelineStack(decoder, "decoder", call.x, call.tgt_mask,
                                      call.memory, call.src_mask)

\* with an attention module that returns its output, and a memory given
\* only to a layer that has a src_attn, the layer and the stacks are the
\* pipelines of C8 and C9
PipelineWithTensorAttention ==
    /\ (/\ call.op = "TransformerLayer.forward"
        /\ CalledLayer.self_attn = "TensorAttention"
        /\ (call.src # None => CalledLayer.src_attn # "None")) =>
          /\ call.outcome = "returned"
          /\ call.ret = PipelineLayer(CalledLayer, call.layer, 0, call.x, call.mask,
                                      call.src, call.src_mask)
    /\ (call.op = "Encoder.forward" /\ enc_layer.self_attn = "TensorAttention") =>
          /\ call.outcome = "returned"
          /\ call.ret = PipelineStack(encoder, "encoder", call.x, call.mask, None, None)
    /\ (call.op = "Decoder.forward" /\ dec_layer.self_attn = "TensorAttention") =>
          /\ call.outcome = "returned"
          /\ call.ret = PipelineStack(decoder, "decoder", call.x, call.tgt_mask,
                                      call.memory, call.src_mask)
    /\ (call.op \in {"Encoder.forward", "Decoder.forward"} /\ Len(encoder) = 0) =>
          call.ret = LayerNorm("norm", IF call.op = "Encoder.forward" THEN "encoder"
                                       ELSE "decoder", 0, call.x)

ForwardOps ==
    {"forward", "embed.forward", "FeedForward.forward", "TransformerLayer.forward",
     "Encoder.forward", "Decoder.forward", "EncoderDecoder.forward"}

\* the attributes (learned parameters included) of all module objects
Modules == <<mha, emb, enc_layer, dec_layer, encoder, decoder>>

\* a step that is one forward call
ForwardStep == call.op = "none" /\ call'.op \in ForwardOps

SavedFFInput(Before, After) ==
    \/ After = Before
    \/ /\ Before.is_save_ff_input
       /\ After = [Before EXCEPT !.ff_input = After.ff_input]
       /\ After.ff_input # None
       /\ After.ff_input[1] = "bound_method"
       /\ After.ff_input[3][2] = "norm_ff"

====
